---- MODULE Spec2Model ----
(***************************************************************************)
(* State-machine model of neuralforecast/common/_base_windows.py:          *)
(* BaseWindows, the window builder (_create_windows), the leakage-safe     *)
(* normalization (_normalization), the window parser (_parse_windows) and  *)
(* the train / validation / predict steps driven by fit and predict.       *)
(*                                                                         *)
(* Tensors are sequences: batch.temporal[b][c][t] is [B, C, T]; a window   *)
(* batch is [Ws, L+H, C], i.e. windows[i][j][c].  Python's None is the     *)
(* empty sequence and a present optional value x is <<x>>.  Column         *)
(* positions are 0-based as in the code (pandas get_loc / get_indexer).    *)
(***************************************************************************)
EXTENDS Integers, Sequences, FiniteSets, TLC

\* ------------------------------------------------------------------ bounds
MaxWindow == 3
MaxStep == 2
MaxWbs == 2
MaxHoldout == 2
MaxCells == 4
MaxLen == 3
MaxExogLists == 1
MaxSeries == 2
MaxValSteps == 2
MaxFits == 1
MaxOutputs == 2

VARIABLES
    h,                    \* self.h
    input_size,           \* self.input_size
    step_size,            \* self.step_size
    windows_batch_size,   \* self.windows_batch_size: None or <<n>>
    scaler,               \* self.scaler: None or <<[x_shift, x_scale]>>
    futr_exog_list,       \* self.futr_exog_list
    hist_exog_list,       \* self.hist_exog_list
    stat_exog_list,       \* self.stat_exog_list
    val_size,             \* self.val_size
    test_size,            \* self.test_size
    predict_step_size,    \* self.predict_step_size: None until predict sets it
    batch,                \* the batch the data module yields for the dataset
    phase,                \* "idle", or "fit" while trainer.fit is running
    outputs,              \* the trainer's list of validation_step returns
    fits,                 \* how many times fit has been called
    n_outputs,            \* len(self.loss.output_names)
    res                   \* what the last step / hook call did and returned

hparams == <<h, input_size, step_size, windows_batch_size,
             futr_exog_list, hist_exog_list, stat_exog_list, n_outputs>>
vars == <<h, input_size, step_size, windows_batch_size, scaler,
          futr_exog_list, hist_exog_list, stat_exog_list,
          val_size, test_size, predict_step_size, batch, phase, outputs, fits,
          n_outputs, res>>

\* ----------------------------------------------------------- Python values
None == <<>>
Some(x) == <<x>>

Max(a, b) == IF a >= b THEN a ELSE b
Min(a, b) == IF a <= b THEN a ELSE b

\* A slice bound of Python: a negative bound counts from the end, and both
\* ends are clamped into 0..n.
PyBound(i, n) == IF i < 0 THEN Max(n + i, 0) ELSE Min(i, n)

\* s[start:stop] with 0-based Python bounds.
PySlice(s, start, stop) ==
    LET a == PyBound(start, Len(s))
        b == PyBound(stop, Len(s))
    IN  IF b <= a THEN <<>> ELSE SubSeq(s, a + 1, b)

\* s[i] of Python for a 0-based, possibly negative, index i.
PyItem(s, i) == IF i < 0 THEN s[Len(s) + i + 1] ELSE s[i + 1]

RECURSIVE SumSeq(_)
SumSeq(s) == IF s = <<>> THEN 0 ELSE Head(s) + SumSeq(Tail(s))

RECURSIVE Flatten(_)
Flatten(ss) == IF ss = <<>> THEN <<>> ELSE Head(ss) \o Flatten(Tail(ss))

\* x[cond] for a boolean vector cond: the rows of x where cond holds, in order.
RECURSIVE BoolIndex(_, _)
BoolIndex(x, cond) ==
    IF x = <<>> THEN <<>>
    ELSE (IF Head(cond) THEN <<Head(x)>> ELSE <<>>) \o BoolIndex(Tail(x), Tail(cond))

\* x[idxs] for a vector idxs of 0-based row numbers.
IntIndex(x, idxs) == [k \in 1..Len(idxs) |-> x[idxs[k] + 1]]

\* pandas Index.get_loc for a name the index holds.
get_loc(cols, name) == (CHOOSE i \in 1..Len(cols) : cols[i] = name) - 1

\* pandas Index.get_indexer: the position of each name, -1 for a name the
\* index does not hold.
get_indexer(cols, names) ==
    [k \in 1..Len(names) |->
        IF \E i \in 1..Len(cols) : cols[i] = names[k]
        THEN (CHOOSE i \in 1..Len(cols) : cols[i] = names[k]) - 1
        ELSE -1]

\* pandas Index.drop(name)
drop(cols, name) == SelectSeq(cols, LAMBDA c : c # name)

\* --------------------------------------------------------------- the batch
TemporalCols == <<"y", "ex1", "available_mask">>
StaticCols == <<"s1">>

\* Observed values are distinct per series and time position, and never 0,
\* so that a value names the place of the series it was read from; the
\* target values of a series lie 2 apart, so that a scale is not always 1.
YValue(b, t) == 10 * b + 2 * t
ExValue(b, t) == 100 + 10 * b + t
StaticValue(b) == 500 + b

MkBatch(B, T, mask, has_static) ==
    [temporal |-> [b \in 1..B |->
                     << [t \in 1..T |-> YValue(b, t)],
                        [t \in 1..T |-> ExValue(b, t)],
                        [t \in 1..T |-> mask[b][t]] >>],
     temporal_cols |-> TemporalCols,
     static |-> IF has_static THEN Some([b \in 1..B |-> <<StaticValue(b)>>]) ELSE None,
     static_cols |-> IF has_static THEN Some(StaticCols) ELSE None]

Batches ==
    UNION { { MkBatch(B, T, mask, st) :
                mask \in [1..B -> [1..T -> {0, 1}]], st \in BOOLEAN } :
            <<B, T>> \in { p \in (1..MaxSeries) \X (1..MaxLen) : p[1] * p[2] <= MaxCells } }

SeriesLen == Len(batch.temporal[1][1])
NSeries == Len(batch.temporal)

\* ------------------------------------------------------------ the windows
\* nn.ConstantPad1d(padding=(0, self.h), value=0) on the time axis.
padder(temporal) ==
    [b \in 1..Len(temporal) |->
        [c \in 1..Len(temporal[b]) |-> temporal[b][c] \o [k \in 1..h |-> 0]]]

\* temporal[:, :, start:stop]
TimeSlice(temporal, start, stop) ==
    [b \in 1..Len(temporal) |->
        [c \in 1..Len(temporal[b]) |-> PySlice(temporal[b][c], start, stop)]]

TimeLen(temporal) == Len(temporal[1][1])

\* Tensor.unfold raises when the window is longer than the time axis.
unfold_fails(temporal, size) == size > TimeLen(temporal)

\* windows.shape[2] after unfold(dimension=-1, size, step)
n_unfold(temporal, size, step) == (TimeLen(temporal) - size) \div step + 1

\* unfold, permute(0, 2, 3, 1) and reshape(-1, window_size, C):
\* windows[i][j][c], series-major, slide positions left to right.
unfold_reshape(temporal, size, step) ==
    Flatten([b \in 1..Len(temporal) |->
        [k \in 1..n_unfold(temporal, size, step) |->
            [j \in 1..size |->
                [c \in 1..Len(temporal[b]) |-> temporal[b][c][(k - 1) * step + j]]]]])

\* torch.repeat_interleave(static, repeats, dim=0)
repeat_interleave(static, repeats) ==
    [i \in 1..(Len(static) * repeats) |-> static[(i - 1) \div repeats + 1]]

window_size == input_size + h

\* rows[:, idx] of a block of window rows
Column(rows, idx) == [j \in 1..Len(rows) |-> PyItem(rows[j], idx)]

\* windows[:, -self.h:, idx] and windows[:, :-self.h, idx] of one window
Horizon(w, idx) == Column(PySlice(w, -h, Len(w)), idx)

Encoder(w, idx) == Column(PySlice(w, 0, -h), idx)

\* Mutant of train_cut: only the validation span is cut off.
train_cut_val_only ==
    IF val_size > 0
    THEN TimeSlice(batch.temporal, 0, -val_size)
    ELSE batch.temporal

\* train: holdout cut, trailing pad
train_cut ==
    IF val_size + test_size > 0
    THEN TimeSlice(batch.temporal, 0, -val_size - test_size)
    ELSE batch.temporal

train_temporal == padder(train_cut)

\* Mutant of final_condition: the encoder condition is forgotten.
final_condition_horizon_only(windows) ==
    [i \in 1..Len(windows) |->
        SumSeq(Horizon(windows[i], get_loc(batch.temporal_cols, "available_mask"))) > 0]

\* final_condition = (sample_condition > 0) & (available_condition > 0)
final_condition(windows) ==
    [i \in 1..Len(windows) |->
        /\ SumSeq(Horizon(windows[i], get_loc(batch.temporal_cols, "available_mask"))) > 0
        /\ SumSeq(Encoder(windows[i], get_loc(batch.temporal_cols, "available_mask"))) > 0]

\* Mutant of choice: never draws more rows than the pool holds.
choice_at_most_pool(n, size, replace) ==
    { w \in [1..Min(n, size) -> 0..(n - 1)] :
        replace \/ \A a, b \in 1..Min(n, size) : a # b => w[a] # w[b] }

\* np.random.choice(n, size, replace): every vector it can draw
choice(n, size, replace) ==
    { w \in [1..size -> 0..(n - 1)] :
        replace \/ \A a, b \in 1..size : a # b => w[a] # w[b] }

WindowsResult(err, temporal, static, n_candidates, n_pool, sampled) ==
    [err |-> err, temporal |-> temporal, temporal_cols |-> batch.temporal_cols,
     static |-> static, static_cols |-> batch.static_cols,
     n_candidates |-> n_candidates, n_pool |-> n_pool, sampled |-> sampled]

\* Mutant of static_rows: the static rows are tiled, not repeated per series.
static_rows_tiled(windows_per_serie, cond) ==
    IF batch.static # None
    THEN Some(BoolIndex([i \in 1..(Len(batch.static[1]) * windows_per_serie) |->
                            batch.static[1][((i - 1) % Len(batch.static[1])) + 1]], cond))
    ELSE None

\* static = repeat_interleave(static, windows_per_serie)[cond]
static_rows(windows_per_serie, cond) ==
    IF batch.static # None
    THEN Some(BoolIndex(repeat_interleave(batch.static[1], windows_per_serie), cond))
    ELSE None

\* windows[final_condition] and static[final_condition]
select_pool(candidates, cond, windows_per_serie) ==
    [fails |-> FALSE,
     n_candidates |-> Len(candidates),
     windows |-> BoolIndex(candidates, cond),
     static |-> static_rows(windows_per_serie, cond)]

filter_windows(candidates, windows_per_serie) ==
    select_pool(candidates, final_condition(candidates), windows_per_serie)

\* unfold (which raises on a series shorter than the window), reshape, filter
pool_of(temporal) ==
    IF unfold_fails(temporal, window_size)
    THEN [fails |-> TRUE, n_candidates |-> 0, windows |-> <<>>, static |-> None]
    ELSE filter_windows(unfold_reshape(temporal, window_size, step_size),
                        n_unfold(temporal, window_size, step_size))

\* The train windows after the validity filter, with their static rows.
train_pool == pool_of(train_temporal)

\* The index vectors the subsampling of the train step can draw.
train_draws(pool) ==
    IF pool.fails \/ Len(pool.windows) = 0 \/ windows_batch_size = None THEN {<<>>}
    ELSE choice(Len(pool.windows), windows_batch_size[1],
                Len(pool.windows) < windows_batch_size[1])

\* windows = windows[w_idxs]; static = static[w_idxs]
sample_windows(pool, w_idxs) ==
    WindowsResult("", IntIndex(pool.windows, w_idxs),
                  IF pool.static # None THEN Some(IntIndex(pool.static[1], w_idxs)) ELSE None,
                  pool.n_candidates, Len(pool.windows), TRUE)

\* Mutant of create_windows_train: the protection of empty windows is missing.
create_windows_train_unprotected(pool, w_idxs) ==
    IF pool.fails
    THEN WindowsResult("unfold: size exceeds dimension", <<>>, None, 0, 0, FALSE)
    ELSE IF windows_batch_size # None
    THEN sample_windows(pool, w_idxs)
    ELSE WindowsResult("", pool.windows, pool.static,
                       pool.n_candidates, Len(pool.windows), FALSE)

\* _create_windows(batch, 'train') from the filtered pool on
create_windows_train(pool, w_idxs) ==
    IF pool.fails
    THEN WindowsResult("unfold: size exceeds dimension", <<>>, None, 0, 0, FALSE)
    ELSE IF Len(pool.windows) = 0
    THEN WindowsResult("No windows available for training", <<>>, None,
                       pool.n_candidates, 0, FALSE)
    ELSE IF windows_batch_size # None
    THEN sample_windows(pool, w_idxs)
    ELSE WindowsResult("", pool.windows, pool.static,
                       pool.n_candidates, Len(pool.windows), FALSE)

\* Mutant of val_temporal: the test span is not cut off the validation slice.
val_temporal_with_test ==
    TimeSlice(batch.temporal, -input_size - val_size - test_size, SeriesLen)

\* val: the span [input_size + val_size + test_size back, test_size from the end)
val_temporal ==
    IF test_size > 0
    THEN TimeSlice(batch.temporal, -input_size - val_size - test_size, -test_size)
    ELSE TimeSlice(batch.temporal, -input_size - val_size - test_size, SeriesLen)

\* Mutant of predict_pads: the future exogenous covariates are not looked at.
predict_pads_any_exog == test_size = 0

\* predict: the trailing input_size + test_size span, padded when there is
\* neither a test span nor a future exogenous covariate
predict_pads == test_size = 0 /\ Len(futr_exog_list) = 0

predict_cut == TimeSlice(batch.temporal, -input_size - test_size, SeriesLen)

predict_temporal == IF predict_pads THEN padder(predict_cut) ELSE predict_cut

eval_windows(windows, windows_per_serie) ==
    WindowsResult("", windows,
                  IF batch.static # None
                  THEN Some(repeat_interleave(batch.static[1], windows_per_serie))
                  ELSE None,
                  Len(windows), Len(windows), FALSE)

\* the 'predict' / 'val' branch after the slicing: unfold, reshape, static
create_windows_eval(temporal, predict_step) ==
    IF unfold_fails(temporal, window_size)
    THEN WindowsResult("unfold: size exceeds dimension", <<>>, None, 0, 0, FALSE)
    ELSE eval_windows(unfold_reshape(temporal, window_size, predict_step),
                      n_unfold(temporal, window_size, predict_step))

create_windows_val == create_windows_eval(val_temporal, step_size)

create_windows_predict(predict_step) == create_windows_eval(predict_temporal, predict_step)

\* ---------------------------------------------------------- normalization
\* TemporalNorm.transform: per window and data channel, statistics over the
\* time positions whose mask is not 0 (min-max scaling; a channel with no
\* unmasked position, or a constant one, is scaled by 1).
MinOf(S) == CHOOSE x \in S : \A y \in S : x <= y
MaxOf(S) == CHOOSE x \in S : \A y \in S : x >= y

stat_shift(obs) == IF obs = {} THEN 0 ELSE MinOf(obs)
stat_range(lo, hi) == IF hi = lo THEN 1 ELSE hi - lo
stat_scale(obs) == IF obs = {} THEN 1 ELSE stat_range(MinOf(obs), MaxOf(obs))

\* the values of data channel d of window xi at the unmasked positions
observed(xi, maski, d) == { xi[j][d] : j \in { k \in 1..Len(xi) : maski[k] # 0 } }

scaler_stats(x, mask) ==
    [x_shift |-> [i \in 1..Len(x) |-> [d \in 1..Len(x[i][1]) |->
                    stat_shift(observed(x[i], mask[i], d))]],
     x_scale |-> [i \in 1..Len(x) |-> [d \in 1..Len(x[i][1]) |->
                    stat_scale(observed(x[i], mask[i], d))]]]

scaler_transform(x, stats) ==
    [i \in 1..Len(x) |-> [j \in 1..Len(x[i]) |-> [d \in 1..Len(x[i][j]) |->
        (x[i][j][d] - stats.x_shift[i][d]) \div stats.x_scale[i][d]]]]

\* TemporalNorm.inverse_transform of z [B, H, Q] with x_scale and x_shift
\* [B, 1, Q], broadcast over the time positions
scaler_inverse_transform(z, x_scale, x_shift) ==
    [i \in 1..Len(z) |-> [j \in 1..Len(z[i]) |-> [q \in 1..Len(z[i][j]) |->
        z[i][j][q] * x_scale[i][q] + x_shift[i][q]]]]

\* Mutant of normalization_mask: the horizon positions are not zeroed.
normalization_mask_full(temporal) ==
    [i \in 1..Len(temporal) |-> [j \in 1..Len(temporal[i]) |->
        PyItem(temporal[i][j], get_loc(batch.temporal_cols, "available_mask"))]]

\* temporal_mask = temporal[:, :, mask].clone(); temporal_mask[:, -self.h:] = 0.0
normalization_mask(temporal) ==
    [i \in 1..Len(temporal) |-> [j \in 1..Len(temporal[i]) |->
        IF j > PyBound(-h, Len(temporal[i])) THEN 0
        ELSE PyItem(temporal[i][j], get_loc(batch.temporal_cols, "available_mask"))]]

\* temporal[:, :, temporal_cols.get_indexer(temporal_data_cols)]
data_columns(temporal, data_idx) ==
    [i \in 1..Len(temporal) |-> [j \in 1..Len(temporal[i]) |->
        [d \in 1..Len(data_idx) |-> PyItem(temporal[i][j], data_idx[d])]]]

\* temporal[:, :, temporal_cols.get_indexer(temporal_data_cols)] = temporal_data
write_columns(temporal, data_idx, z) ==
    [i \in 1..Len(temporal) |-> [j \in 1..Len(temporal[i]) |->
        [c \in 1..Len(temporal[i][j]) |->
            IF \E d \in 1..Len(data_idx) : data_idx[d] = c - 1
            THEN z[i][j][CHOOSE d \in 1..Len(data_idx) : data_idx[d] = c - 1]
            ELSE temporal[i][j][c]]]]

normalize_with(temporal, data_idx, temporal_data, temporal_mask, stats) ==
    [temporal |-> write_columns(temporal, data_idx, scaler_transform(temporal_data, stats)),
     mask |-> temporal_mask,
     stats |-> stats]

normalize_data(temporal, data_idx, temporal_data, temporal_mask) ==
    normalize_with(temporal, data_idx, temporal_data, temporal_mask,
                   scaler_stats(temporal_data, temporal_mask))

normalize_columns(temporal, data_idx) ==
    normalize_data(temporal, data_idx, data_columns(temporal, data_idx),
                   normalization_mask(temporal))

\* _normalization: [temporal, mask handed to the scaler, the statistics kept]
normalization(temporal) ==
    normalize_columns(temporal,
        get_indexer(batch.temporal_cols, drop(batch.temporal_cols, "available_mask")))

\* y_scale / y_shift: x_scale[:, :, get_indexer(['y'])] of the kept statistics
y_stat(stat, n) ==
    [i \in 1..n |->
        PyItem(stat[i], get_indexer(drop(batch.temporal_cols, "available_mask"), <<"y">>)[1])]

\* torch.repeat_interleave(y_scale, repeats=y_hat.shape[-1], dim=-1)
y_stat_repeated(stat, n, repeats) ==
    [i \in 1..n |-> repeat_interleave(<<y_stat(stat, n)[i]>>, repeats)]

\* y_hat.unsqueeze(-1) and y_hat.squeeze(-1)
unsqueeze(y_hat) == [i \in 1..Len(y_hat) |-> [j \in 1..Len(y_hat[i]) |-> <<y_hat[i][j]>>]]

squeeze(y_hat) == [i \in 1..Len(y_hat) |-> [j \in 1..Len(y_hat[i]) |-> y_hat[i][j][1]]]

\* y_hat.ndim: [B, H] for one output column, [B, H, Q] for several
ndim == IF n_outputs = 1 THEN 2 ELSE 3

\* the inversion of a [B, H, Q] forecast with the kept 'y' statistics
inverse_columns(y_hat, stats) ==
    scaler_inverse_transform(y_hat,
        y_stat_repeated(stats.x_scale, Len(y_hat), Len(y_hat[1][1])),
        y_stat_repeated(stats.x_shift, Len(y_hat), Len(y_hat[1][1])))

\* _inv_normalization
inv_normalization(y_hat, stats) ==
    IF ndim = 2
    THEN squeeze(inverse_columns(unsqueeze(y_hat), stats))
    ELSE inverse_columns(y_hat, stats)

\* ------------------------------------------------------------------ parse
\* windows['temporal'][:, rows, idxs] for a list idxs of column positions
Block(rows, idxs) == [j \in 1..Len(rows) |-> [k \in 1..Len(idxs) |-> PyItem(rows[j], idxs[k])]]

NoParse ==
    [err |-> "", insample_y |-> <<>>, insample_mask |-> <<>>, outsample_y |-> <<>>,
     outsample_mask |-> <<>>, hist_exog |-> None, futr_exog |-> None, stat_exog |-> None]

parse_columns(temporal, static, static_cols, y_idx, mask_idx) ==
    [err |-> "",
     insample_y |-> [i \in 1..Len(temporal) |-> Encoder(temporal[i], y_idx)],
     insample_mask |-> [i \in 1..Len(temporal) |-> Encoder(temporal[i], mask_idx)],
     outsample_y |-> [i \in 1..Len(temporal) |-> Horizon(temporal[i], y_idx)],
     outsample_mask |-> [i \in 1..Len(temporal) |-> Horizon(temporal[i], mask_idx)],
     hist_exog |-> IF Len(hist_exog_list) > 0
                   THEN Some([i \in 1..Len(temporal) |->
                           Block(PySlice(temporal[i], 0, -h),
                                 get_indexer(batch.temporal_cols, hist_exog_list))])
                   ELSE None,
     futr_exog |-> IF Len(futr_exog_list) > 0
                   THEN Some([i \in 1..Len(temporal) |->
                           Block(temporal[i],
                                 get_indexer(batch.temporal_cols, futr_exog_list))])
                   ELSE None,
     stat_exog |-> IF Len(stat_exog_list) > 0
                   THEN Some(Block(static[1], get_indexer(static_cols[1], stat_exog_list)))
                   ELSE None]

\* _parse_windows; windows['static_cols'] is None for a batch without static
\* covariates, and None has no get_indexer
parse_windows(temporal, static, static_cols) ==
    IF Len(stat_exog_list) > 0 /\ static_cols = None
    THEN [NoParse EXCEPT !.err = "AttributeError: NoneType has no get_indexer"]
    ELSE parse_columns(temporal, static, static_cols,
                       get_loc(batch.temporal_cols, "y"),
                       get_loc(batch.temporal_cols, "available_mask"))

\* ------------------------------------------------------------------ steps
\* The architecture (forward) is abstract in BaseWindows; a naive one stands
\* for it: every horizon step repeats the last insample value.
forward(insample_y) ==
    [i \in 1..Len(insample_y) |-> [j \in 1..h |-> insample_y[i][Len(insample_y[i])]]]

\* With several output columns (quantiles) the forecast is [B, H, Q]; column
\* q stands q - 1 above the point forecast.
output_columns(y_hat) ==
    IF n_outputs = 1 THEN y_hat
    ELSE [i \in 1..Len(y_hat) |-> [j \in 1..Len(y_hat[i]) |->
            [q \in 1..n_outputs |-> y_hat[i][j] + (q - 1)]]]

\* The loss is pluggable; a masked absolute error stands for it:
\* the sum over windows and horizon steps of mask * |y - y_hat|.
Abs(x) == IF x < 0 THEN -x ELSE x

loss(y, y_hat, mask) ==
    SumSeq([i \in 1..Len(y) |->
        SumSeq([j \in 1..Len(y[i]) |-> mask[i][j] * Abs(y[i][j] - y_hat[i][j])])])

\* np.nan, and a scalar loss tensor
NaN == <<>>
Tensor(v) == <<v>>

RECURSIVE GCD(_, _)
GCD(a, b) == IF b = 0 THEN a ELSE GCD(b, a % b)

Fraction(num, den, g) == <<num \div g, den \div g>>

\* torch.stack(outputs).mean() as a fraction <<numerator, denominator>>
mean_of(total, n) == Fraction(total, n, GCD(total, n))

stack_mean(outs) == mean_of(SumSeq([k \in 1..Len(outs) |-> outs[k][1]]), Len(outs))

NoStats == [x_shift |-> <<>>, x_scale |-> <<>>]

NoWindows == WindowsResult("", <<>>, None, 0, 0, FALSE)

NoRes ==
    [step |-> "none", err |-> "", windows |-> NoWindows, normalized |-> FALSE,
     scaler_mask |-> <<>>, temporal |-> <<>>, parsed |-> NoParse,
     forward |-> FALSE, loss_called |-> FALSE, ret |-> None, logged |-> <<>>,
     inverted |-> FALSE, fcsts |-> <<>>, outs |-> <<>>, cache_before |-> None]

\* A step that raised before the architecture was called.
Raised(r, scaler_after) == [res |-> r, scaler_after |-> scaler_after, y_hat |-> <<>>]

\* parse, then output = self(windows_batch)
run_parsed(r, pw, scaler_after) ==
    IF pw.err # ""
    THEN Raised([r EXCEPT !.err = pw.err], scaler_after)
    ELSE [res |-> [r EXCEPT !.parsed = pw, !.forward = TRUE],
          scaler_after |-> scaler_after,
          y_hat |-> forward(pw.insample_y)]

\* if self.scaler is not None: windows = self._normalization(windows)
run_normalized(step, cw, nz) ==
    run_parsed([NoRes EXCEPT !.step = step, !.windows = cw, !.normalized = TRUE,
                             !.scaler_mask = nz.mask, !.temporal = nz.temporal],
               parse_windows(nz.temporal, cw.static, cw.static_cols),
               Some(nz.stats))

run_plain(step, cw) ==
    run_parsed([NoRes EXCEPT !.step = step, !.windows = cw, !.temporal = cw.temporal],
               parse_windows(cw.temporal, cw.static, cw.static_cols),
               scaler)

\* The part the three steps share: windows -> (scaler) normalize -> parse ->
\* architecture forward.  scaler_after is self.scaler when the step is left.
run_windows(step, cw) ==
    IF cw.err # ""
    THEN Raised([NoRes EXCEPT !.step = step, !.err = cw.err, !.windows = cw], scaler)
    ELSE IF scaler # None
    THEN run_normalized(step, cw, normalization(cw.temporal))
    ELSE run_plain(step, cw)

\* loss = self.loss(...); self.log(name, loss); return loss
with_loss(run, name, l) ==
    [run EXCEPT !.res.loss_called = TRUE, !.res.ret = Some(Tensor(l)),
                !.res.logged = << <<name, Tensor(l)>> >>]

finish_step(run, name) ==
    IF run.res.err # "" THEN run
    ELSE with_loss(run, name,
                   loss(run.res.parsed.outsample_y, run.y_hat, run.res.parsed.outsample_mask))

training_step(pool, w_idxs) ==
    finish_step(run_windows("train", create_windows_train(pool, w_idxs)), "train_loss")

validation_step ==
    IF val_size = 0
    THEN [res |-> [NoRes EXCEPT !.step = "val", !.ret = Some(NaN)],
          scaler_after |-> scaler, y_hat |-> <<>>]
    ELSE finish_step(run_windows("val", create_windows_val), "val_loss")

\* Mutant of validation_epoch_end: the early return on val_size == 0 is missing.
validation_epoch_end_unguarded(outs) ==
    IF outs = <<>>
    THEN [NoRes EXCEPT !.step = "val_epoch_end", !.outs = outs,
                       !.err = "stack expects a non-empty TensorList"]
    ELSE IF \E k \in 1..Len(outs) : outs[k] = NaN
    THEN [NoRes EXCEPT !.step = "val_epoch_end", !.outs = outs,
                       !.err = "TypeError: expected Tensor"]
    ELSE [NoRes EXCEPT !.step = "val_epoch_end", !.outs = outs,
                       !.logged = << <<"ptl/val_loss", stack_mean(outs)>> >>]

\* res.outs keeps the list the hook was handed
validation_epoch_end(outs) ==
    IF val_size = 0
    THEN [NoRes EXCEPT !.step = "val_epoch_end", !.outs = outs]
    ELSE IF outs = <<>>
    THEN [NoRes EXCEPT !.step = "val_epoch_end", !.outs = outs,
                       !.err = "stack expects a non-empty TensorList"]
    ELSE IF \E k \in 1..Len(outs) : outs[k] = NaN
    THEN [NoRes EXCEPT !.step = "val_epoch_end", !.outs = outs,
                       !.err = "TypeError: expected Tensor"]
    ELSE [NoRes EXCEPT !.step = "val_epoch_end", !.outs = outs,
                       !.logged = << <<"ptl/val_loss", stack_mean(outs)>> >>]

\* Mutant of inverse_step: the statistics the scaler held when the step
\* began, those of an earlier step, are used when they cover the forecast.
inverse_step_earlier_stats(run) ==
    IF run.res.err # "" \/ scaler = None THEN run
    ELSE IF Len(scaler[1].x_scale) >= Len(run.y_hat)
    THEN [run EXCEPT !.res.inverted = TRUE,
                     !.y_hat = inv_normalization(run.y_hat, scaler[1])]
    ELSE [run EXCEPT !.res.inverted = TRUE,
                     !.y_hat = inv_normalization(run.y_hat, run.scaler_after[1])]

\* if self.scaler is not None: y_hat = self._inv_normalization(...); the
\* scaler holds what this step's _normalization wrote
inverse_step(run) ==
    IF run.res.err # "" \/ scaler = None THEN run
    ELSE [run EXCEPT !.res.inverted = TRUE,
                     !.y_hat = inv_normalization(run.y_hat, run.scaler_after[1])]

\* y_hat = output[0]
predict_output(run) ==
    IF run.res.err # "" THEN run
    ELSE [run EXCEPT !.y_hat = output_columns(run.y_hat)]

predict_step(step) ==
    inverse_step(predict_output(run_windows("predict", create_windows_predict(step))))

\* torch.vstack(fcsts).numpy().flatten()
flatten(y_hat) == IF ndim = 2 THEN Flatten(y_hat) ELSE Flatten(Flatten(y_hat))

\* fcsts.reshape(-1, len(self.loss.output_names))
reshape_fcsts(flat) ==
    [k \in 1..(Len(flat) \div n_outputs) |->
        SubSeq(flat, (k - 1) * n_outputs + 1, k * n_outputs)]

\* res.cache_before keeps what the scaler held when the predict step began
predict_result(run) ==
    IF run.res.err # "" THEN [run.res EXCEPT !.cache_before = scaler]
    ELSE [run.res EXCEPT !.ret = Some(run.y_hat), !.fcsts = reshape_fcsts(flatten(run.y_hat)),
                         !.cache_before = scaler]

\* ---------------------------------------------------------------- actions
ExogNames == {<<>>, <<"ex1">>, <<"ex9">>}
StatNames == {<<>>, <<"s1">>, <<"s9">>}

ExogConfigs ==
    { c \in ExogNames \X ExogNames \X StatNames :
        Cardinality({ k \in 1..3 : c[k] # <<>> }) <= MaxExogLists }

\* __init__: the hyperparameters, no holdout, no predict step size yet
Constructed ==
    /\ \E p \in (1..MaxWindow) \X (1..MaxWindow) :
            /\ p[1] + p[2] <= MaxWindow
            /\ h = p[1]
            /\ input_size = p[2]
    /\ step_size \in 1..MaxStep
    /\ windows_batch_size \in {None} \cup { Some(n) : n \in 1..MaxWbs }
    /\ scaler \in {None, Some(NoStats)}
    /\ \E c \in ExogConfigs :
            /\ futr_exog_list = c[1]
            /\ hist_exog_list = c[2]
            /\ stat_exog_list = c[3]
    /\ val_size = 0
    /\ test_size = 0
    /\ predict_step_size = None
    /\ batch \in Batches
    /\ phase = "idle"
    /\ outputs = <<>>
    /\ fits = 0
    /\ n_outputs \in 1..MaxOutputs
    /\ res = NoRes

\* The window builder under every window hyperparameter and batch, without
\* a scaler and without historic or static covariates, with a point loss.
Init ==
    /\ Constructed
    /\ n_outputs = 1
    /\ scaler = None
    /\ futr_exog_list \in {<<>>, <<"ex1">>}
    /\ hist_exog_list = <<>>
    /\ stat_exog_list = <<>>

\* fit: records the holdout sizes and starts the trainer
Fit ==
    /\ phase = "idle"
    /\ fits < MaxFits
    /\ fits' = fits + 1
    /\ \E v \in 0..MaxHoldout, t \in 0..MaxHoldout :
            /\ v + t <= MaxHoldout
            /\ val_size' = v
            /\ test_size' = t
    /\ phase' = "fit"
    /\ outputs' = <<>>
    /\ res' = [NoRes EXCEPT !.step = "fit"]
    /\ UNCHANGED <<hparams, scaler, predict_step_size, batch>>

\* trainer.fit returns
FitEnd ==
    /\ phase = "fit"
    /\ outputs = <<>>
    /\ phase' = "idle"
    /\ res' = [NoRes EXCEPT !.step = "fit_end"]
    /\ UNCHANGED <<hparams, scaler, val_size, test_size, predict_step_size, batch, outputs, fits>>

\* A step returned or raised; an exception ends trainer.fit.
StepDone(run) ==
    /\ res' = run.res
    /\ scaler' = run.scaler_after
    /\ phase' = IF run.res.err # "" THEN "idle" ELSE "fit"

TrainingDraw(pool) == \E w_idxs \in train_draws(pool) : StepDone(training_step(pool, w_idxs))

TrainingStep ==
    /\ phase = "fit"
    /\ outputs = <<>>
    /\ TrainingDraw(train_pool)
    /\ UNCHANGED <<hparams, val_size, test_size, predict_step_size, batch, outputs, fits>>

ValidationDone(run) ==
    /\ StepDone(run)
    /\ outputs' = IF run.res.err # "" THEN <<>> ELSE Append(outputs, run.res.ret[1])

ValidationStep ==
    /\ phase = "fit"
    /\ Len(outputs) < MaxValSteps
    /\ ValidationDone(validation_step)
    /\ UNCHANGED <<hparams, val_size, test_size, predict_step_size, batch, fits>>

HookDone(r) ==
    /\ res' = r
    /\ phase' = IF r.err # "" THEN "idle" ELSE "fit"

ValidationEpochEnd ==
    /\ phase = "fit"
    /\ HookDone(validation_epoch_end(outputs))
    /\ outputs' = <<>>
    /\ UNCHANGED <<hparams, scaler, val_size, test_size, predict_step_size, batch, fits>>

PredictDone(run) ==
    /\ scaler' = run.scaler_after
    /\ res' = predict_result(run)

\* predict: records the step size, runs predict_step on the batch and
\* reshapes the forecasts
Predict ==
    /\ phase = "idle"
    /\ fits > 0
    /\ \E step \in 1..MaxStep :
            /\ predict_step_size' = Some(step)
            /\ PredictDone(predict_step(step))
    /\ UNCHANGED <<hparams, val_size, test_size, batch, phase, outputs, fits>>

Next ==
    \/ Fit
    \/ FitEnd
    \/ TrainingStep
    \/ ValidationStep
    \/ ValidationEpochEnd
    \/ Predict

Spec == Init /\ [][Next]_vars

\* The parser and the scaler under every covariate configuration, with and
\* without a scaler, at step size 1 and without a cap on the window count.
InitExog ==
    /\ Constructed
    /\ n_outputs = 1
    /\ step_size = 1
    /\ windows_batch_size = None

SpecExog == InitExog /\ [][Next]_vars

\* The scaler and its inverse with one or more output columns of the loss,
\* with and without a scaler, at step size 1, without a cap on the window
\* count and without exogenous covariates.
InitInv ==
    /\ Constructed
    /\ step_size = 1
    /\ windows_batch_size = None
    /\ futr_exog_list = <<>>
    /\ hist_exog_list = <<>>
    /\ stat_exog_list = <<>>

SpecInv == InitInv /\ [][Next]_vars

\* ------------------------------------------------------------- the claims
\* What the claims say, stated over the batch and the hyperparameters only.
MaskCol == CHOOSE c \in 1..Len(TemporalCols) : TemporalCols[c] = "available_mask"
YCol == CHOOSE c \in 1..Len(TemporalCols) : TemporalCols[c] = "y"

\* The cell of series b at time position t, and a zero-padded cell.
RefCell(b, t) == <<YValue(b, t), ExValue(b, t), batch.temporal[b][MaskCol][t]>>
PadCell == <<0, 0, 0>>

\* The series a window was extracted from: its first cell is never padding.
SeriesOf(w) ==
    CHOOSE b \in 1..NSeries : \E t \in 1..SeriesLen : w[1][YCol] = YValue(b, t)

TrainReturned == res.step = "train" /\ res.windows.err = ""

\* Train mode: the positions left by the holdout cut, the cell of slide
\* position k of series b, and the windows that pass the validity filter.
TrainLen == SeriesLen - (val_size + test_size)

RefTrainWindow(b, k) ==
    [j \in 1..(input_size + h) |->
        IF (k - 1) * step_size + j <= TrainLen
        THEN RefCell(b, (k - 1) * step_size + j) ELSE PadCell]

RefTrainCount ==
    Cardinality({ k \in 1..(MaxLen + MaxWindow) :
                    (k - 1) * step_size + input_size + h <= TrainLen + h })

RefValid(w) ==
    /\ \E j \in (input_size + 1)..(input_size + h) : w[j][MaskCol] > 0
    /\ \E j \in 1..input_size : w[j][MaskCol] > 0

RefTrainAll ==
    [n \in 1..(NSeries * RefTrainCount) |->
        RefTrainWindow(((n - 1) \div RefTrainCount) + 1, ((n - 1) % RefTrainCount) + 1)]

RefTrainPool == SelectSeq(RefTrainAll, RefValid)

\* C1: every window a train step returns has an available position in its
\* horizon (last h steps) and one in its encoder (first input_size steps),
\* subsampled or not.
C1_TrainWindowsValid ==
    TrainReturned =>
        \A i \in 1..Len(res.windows.temporal) :
            /\ Len(res.windows.temporal[i]) = input_size + h
            /\ RefValid(res.windows.temporal[i])

C1_Witness ==
    /\ TrainReturned
    /\ res.windows.sampled
    /\ res.windows.n_pool < res.windows.n_candidates
    /\ Len(res.windows.temporal) >= 2

\* C2: with a cap configured and a survivor, the train step returns exactly
\* windows_batch_size windows; without a cap it returns the surviving pool.
C2_WindowCount ==
    TrainReturned =>
        IF windows_batch_size # None
        THEN Len(res.windows.temporal) = windows_batch_size[1]
        ELSE res.windows.temporal = RefTrainPool

C2_Witness ==
    /\ TrainReturned
    /\ windows_batch_size # None
    /\ Len(RefTrainPool) >= 1
    /\ Len(RefTrainPool) < windows_batch_size[1]
    /\ Len(res.windows.temporal) = windows_batch_size[1]

\* C3: in a train step with static covariates, static row i is the row of
\* the series window i was extracted from, and there is one row per window.
C3_StaticAligned ==
    (TrainReturned /\ batch.static # None) =>
        /\ res.windows.static # None
        /\ Len(res.windows.static[1]) = Len(res.windows.temporal)
        /\ \A i \in 1..Len(res.windows.temporal) :
                res.windows.static[1][i] = batch.static[1][SeriesOf(res.windows.temporal[i])]

C3_Witness ==
    /\ TrainReturned
    /\ batch.static # None
    /\ res.windows.sampled
    /\ res.windows.n_pool < res.windows.n_candidates
    /\ res.windows.n_candidates > NSeries
    /\ \E i \in 1..Len(res.windows.temporal) : SeriesOf(res.windows.temporal[i]) = 2

\* C4: a train step whose candidate windows all fail the validity filter
\* raises 'No windows available for training' before any subsampling, and
\* neither the architecture nor the loss is called on an empty window set.
C4_NoWindowsRaises ==
    /\ (res.step = "train" /\ RefTrainCount > 0 /\ Len(RefTrainPool) = 0) =>
            /\ res.err = "No windows available for training"
            /\ res.windows.temporal = <<>>
            /\ ~res.windows.sampled
            /\ ~res.forward
            /\ ~res.loss_called
            /\ res.ret = None
    /\ (res.step = "train" /\ (res.forward \/ res.loss_called)) =>
            Len(res.windows.temporal) > 0

C4_Witness ==
    /\ res.step = "train"
    /\ RefTrainCount > 1
    /\ Len(RefTrainPool) = 0
    /\ windows_batch_size # None
    /\ res.err = "No windows available for training"

\* C5: with a holdout recorded by fit, every cell of every train window is
\* a cell of the first T - val_size - test_size positions of its series, or
\* one of the zero-padded cells after the cut.
C5_TrainExcludesHoldout ==
    (TrainReturned /\ val_size + test_size > 0) =>
        \A i \in 1..Len(res.windows.temporal) :
            \A j \in 1..Len(res.windows.temporal[i]) :
                \/ \E b \in 1..NSeries, t \in 1..TrainLen :
                        res.windows.temporal[i][j] = RefCell(b, t)
                \/ /\ j > input_size
                   /\ res.windows.temporal[i][j] = PadCell

C5_Witness ==
    /\ TrainReturned
    /\ test_size > 0
    /\ \E i \in 1..Len(res.windows.temporal) :
            /\ res.windows.temporal[i][input_size + 1]
                    = RefCell(SeriesOf(res.windows.temporal[i]), TrainLen)
            /\ res.windows.temporal[i][input_size + h] = PadCell

\* C6: without a validation span the validation step returns the NaN
\* placeholder and builds no windows, normalizes nothing, calls no
\* architecture and logs nothing, and the epoch hook logs nothing and does
\* not raise whatever list it is handed; with a validation span the epoch
\* hook logs the mean of the step losses as the one metric 'ptl/val_loss'.
C6_ValidationWithoutSpan ==
    /\ (res.step = "val" /\ val_size = 0) =>
            /\ res.ret = Some(NaN)
            /\ res.err = ""
            /\ res.windows = NoWindows
            /\ ~res.normalized
            /\ ~res.forward
            /\ ~res.loss_called
            /\ res.logged = <<>>
    /\ (res.step = "val_epoch_end" /\ val_size = 0) =>
            /\ res.err = ""
            /\ res.logged = <<>>
    /\ (res.step = "val_epoch_end" /\ val_size > 0 /\ res.outs # <<>>) =>
            /\ res.err = ""
            /\ Len(res.logged) = 1
            /\ res.logged[1][1] = "ptl/val_loss"
            /\ res.logged[1][2][2] > 0
            /\ res.logged[1][2][1] * Len(res.outs)
                    = res.logged[1][2][2] * SumSeq([k \in 1..Len(res.outs) |-> res.outs[k][1]])

C6_Witness ==
    /\ res.step = "val_epoch_end"
    /\ val_size = 0
    /\ res.outs = <<NaN, NaN>>
    /\ res.logged = <<>>

\* Predict mode: the span the window builder slides over, per series.
RefPredictStart == Max(SeriesLen - input_size - test_size, 0)

RefPredictPad == IF test_size = 0 /\ futr_exog_list = <<>> THEN h ELSE 0

RefPredictLen == SeriesLen - RefPredictStart + RefPredictPad

RefPredictCount ==
    IF RefPredictLen < input_size + h THEN 0
    ELSE ((RefPredictLen - input_size - h) \div predict_step_size[1]) + 1

RefPredictWindow(b, k) ==
    [j \in 1..(input_size + h) |->
        IF RefPredictStart + (k - 1) * predict_step_size[1] + j <= SeriesLen
        THEN RefCell(b, RefPredictStart + (k - 1) * predict_step_size[1] + j)
        ELSE PadCell]

RefPredictAll ==
    [n \in 1..(NSeries * RefPredictCount) |->
        RefPredictWindow(((n - 1) \div RefPredictCount) + 1, ((n - 1) % RefPredictCount) + 1)]

PaddedSinglePredict ==
    /\ res.step = "predict"
    /\ NSeries = 1
    /\ test_size = 0
    /\ futr_exog_list = <<>>

\* C7 as stated: in the padded case a single-series dataset always yields
\* exactly one window of length input_size + h and h forecast rows.
C7_Original ==
    PaddedSinglePredict =>
        /\ res.err = ""
        /\ Len(res.windows.temporal) = 1
        /\ Len(res.windows.temporal[1]) = input_size + h
        /\ Len(res.fcsts) = h

\* C7 amended: predict slides over the trailing input_size + test_size
\* positions of each series (the whole series when it is shorter), followed
\* by h zero cells iff test_size = 0 and futr_exog_list is empty; a span
\* shorter than a window makes unfold raise; in the padded case a single
\* series of at least input_size positions yields exactly one window of
\* length input_size + h and h forecast rows, whatever the predict step size.
C7_PredictWindows ==
    /\ (res.step = "predict" /\ RefPredictCount > 0) =>
            /\ res.err = ""
            /\ res.windows.temporal = RefPredictAll
    /\ (res.step = "predict" /\ RefPredictCount = 0) =>
            /\ res.err # ""
            /\ res.windows.temporal = <<>>
            /\ res.fcsts = <<>>
    /\ (PaddedSinglePredict /\ SeriesLen >= input_size) =>
            /\ res.err = ""
            /\ Len(res.windows.temporal) = 1
            /\ Len(res.windows.temporal[1]) = input_size + h
            /\ Len(res.fcsts) = h

C7_Witness ==
    /\ PaddedSinglePredict
    /\ SeriesLen > input_size
    /\ predict_step_size = Some(2)
    /\ h = 2
    /\ Len(res.windows.temporal) = 1
    /\ res.windows.temporal[1][input_size] = RefCell(1, SeriesLen)
    /\ res.windows.temporal[1][input_size + h] = PadCell
    /\ Len(res.fcsts) = h

\* _parse_windows ran: the step built windows and went on.
ParseCalled ==
    /\ res.step \in {"train", "val", "predict"}
    /\ res.windows.err = ""
    /\ res.windows.temporal # <<>>

AbsentTemporalName(names) ==
    \E k \in 1..Len(names) : \A c \in 1..Len(batch.temporal_cols) : batch.temporal_cols[c] # names[k]

AbsentStaticName ==
    \E k \in 1..Len(stat_exog_list) :
        \/ batch.static_cols = None
        \/ \A c \in 1..Len(batch.static_cols[1]) : batch.static_cols[1][c] # stat_exog_list[k]

\* C8: when a configured historic or future name is absent from
\* temporal_cols, or a configured static name from static_cols, the parse
\* fails with an error and returns no exogenous block.
C8_AbsentNameFails ==
    (/\ ParseCalled
     /\ \/ AbsentTemporalName(hist_exog_list)
        \/ AbsentTemporalName(futr_exog_list)
        \/ AbsentStaticName) =>
        /\ res.err # ""
        /\ res.parsed = NoParse

\* Validation mode: the slice of the claim and its slide positions.
RefValStart == SeriesLen - input_size - val_size - test_size

RefValCount == ((val_size - h) \div step_size) + 1

RefValWindow(b, k) ==
    [j \in 1..(input_size + h) |-> RefCell(b, RefValStart + (k - 1) * step_size + j)]

RefValAll ==
    [n \in 1..(NSeries * RefValCount) |->
        RefValWindow(((n - 1) \div RefValCount) + 1, ((n - 1) % RefValCount) + 1)]

ValReached == res.step = "val" /\ val_size > 0

\* The series holds the whole slice, and the validation span holds a horizon.
ValFits == RefValStart >= 0 /\ val_size >= h

KeptCell(cell) ==
    \E b \in 1..NSeries, t \in 1..(SeriesLen - test_size) : cell = RefCell(b, t)

RefObserved(i, d) ==
    { res.windows.temporal[i][j][d] :
        j \in { k \in 1..input_size : res.windows.temporal[i][k][MaskCol] # 0 } }

StatsFrom(obs, shift, scale) ==
    IF obs = {} THEN shift = 0 /\ scale = 1
    ELSE /\ shift \in obs
         /\ \A x \in obs : shift <= x
         /\ \E hi \in obs :
                /\ \A x \in obs : x <= hi
                /\ scale = IF hi = shift THEN 1 ELSE hi - shift

\* C10: in a step that normalizes, the mask handed to the scaler is 0 on
\* the last h positions of every window and the window's available_mask on
\* the encoder positions; the statistics kept are those of the available
\* encoder values only; the available_mask channel of the windows is
\* unchanged, and the outsample mask the parser returns is the original one.
C10_ScalerMask ==
    res.normalized =>
        \A i \in 1..Len(res.windows.temporal) :
            /\ Len(res.scaler_mask[i]) = input_size + h
            /\ \A j \in (input_size + 1)..(input_size + h) : res.scaler_mask[i][j] = 0
            /\ \A j \in 1..input_size :
                    res.scaler_mask[i][j] = res.windows.temporal[i][j][MaskCol]
            /\ \A j \in 1..(input_size + h) :
                    res.temporal[i][j][MaskCol] = res.windows.temporal[i][j][MaskCol]
            /\ res.err = "" =>
                    res.parsed.outsample_mask[i] =
                        [j \in 1..h |-> res.windows.temporal[i][input_size + j][MaskCol]]
            /\ \A d \in 1..(Len(TemporalCols) - 1) :
                    StatsFrom(RefObserved(i, d), scaler[1].x_shift[i][d], scaler[1].x_scale[i][d])

C10_Witness ==
    /\ res.normalized
    /\ res.err = ""
    /\ \E i \in 1..Len(res.windows.temporal) :
            /\ \E j \in (input_size + 1)..(input_size + h) :
                    /\ res.windows.temporal[i][j][MaskCol] = 1
                    /\ res.scaler_mask[i][j] = 0
            /\ \E j \in 1..input_size : res.windows.temporal[i][j][MaskCol] = 0
            /\ \E j \in 1..input_size : res.windows.temporal[i][j][MaskCol] = 1
            /\ \E j \in 1..h : res.parsed.outsample_mask[i][j] = 1

\* The 'y' statistics of window i of the last step, from its available
\* encoder values, and the forecast of the architecture before inversion.
RefYShift(i) ==
    IF RefObserved(i, YCol) = {} THEN 0
    ELSE CHOOSE lo \in RefObserved(i, YCol) : \A x \in RefObserved(i, YCol) : lo <= x

RefYTop(i) ==
    IF RefObserved(i, YCol) = {} THEN 0
    ELSE CHOOSE hi \in RefObserved(i, YCol) : \A x \in RefObserved(i, YCol) : x <= hi

RefYScale(i) == IF RefYTop(i) = RefYShift(i) THEN 1 ELSE RefYTop(i) - RefYShift(i)

RawForecast(i, q) == res.parsed.insample_y[i][input_size] + (q - 1)

PredictValue(i, j, q) == IF n_outputs = 1 THEN res.ret[1][i][j] ELSE res.ret[1][i][j][q]

PredictReturned == res.step = "predict" /\ res.err = ""

\* C11: with a scaler, every value a predict step returns is the forecast
\* of the architecture times the 'y' scale plus the 'y' shift of the window
\* statistics this same step's normalization wrote, the same for every
\* output column, whatever the scaler held from earlier steps; train and
\* validation steps invert nothing; without a scaler no step normalizes or
\* inverts, and predict returns the forecast as it is.
C11_InverseUsesOwnStats ==
    /\ (PredictReturned /\ scaler # None) =>
            /\ res.normalized
            /\ res.inverted
            /\ Len(res.ret[1]) = Len(res.windows.temporal)
            /\ Len(res.fcsts) = Len(res.windows.temporal) * h
            /\ \A i \in 1..Len(res.windows.temporal), j \in 1..h, q \in 1..n_outputs :
                    /\ PredictValue(i, j, q) = RawForecast(i, q) * RefYScale(i) + RefYShift(i)
                    /\ res.fcsts[(i - 1) * h + j][q] = PredictValue(i, j, q)
    /\ res.step \in {"train", "val"} => ~res.inverted
    /\ (scaler = None /\ res.step \in {"train", "val", "predict"}) =>
            /\ ~res.normalized
            /\ ~res.inverted
            /\ res.temporal = res.windows.temporal
    /\ (PredictReturned /\ scaler = None) =>
            \A i \in 1..Len(res.windows.temporal), j \in 1..h, q \in 1..n_outputs :
                PredictValue(i, j, q) = RawForecast(i, q)

C11_Witness ==
    /\ PredictReturned
    /\ res.inverted
    /\ n_outputs = 2
    /\ res.cache_before # None
    /\ res.cache_before # Some(NoStats)
    /\ res.cache_before # scaler
    /\ \E i \in 1..Len(res.windows.temporal) :
            /\ RefYScale(i) > 1
            /\ Len(res.cache_before[1].x_shift) >= Len(res.windows.temporal)
            /\ y_stat(res.cache_before[1].x_shift, Len(res.windows.temporal))[i] # RefYShift(i)
            /\ PredictValue(i, 1, 2) # PredictValue(i, 1, 1)

====
